---- MODULE Spec2Model ----
(***************************************************************************)
(* Hexapawn with a rote-learning black player.                             *)
(*                                                                         *)
(* The rules engine (hexapawn.py), the mistake memory (bot.py) and the     *)
(* two game loops (cli.py and gui.py, function play) are modelled.  One    *)
(* step of the model is one iteration of the `while` loop of play(); the   *)
(* iteration that finds a finished game is split at the blocking retry()   *)
(* prompt.  Positions are 0-based pairs <<row, column>> as in the source;  *)
(* a board is a sequence of M rows of N cells.                             *)
(***************************************************************************)
EXTENDS Integers, Sequences, FiniteSets, TLC

\* ------------------------------------------------------------------------
\* Constants of the program
\* ------------------------------------------------------------------------
WHITE == "WHITE_PAWN"
BLACK == "BLACK_PAWN"
EMPTY == "EMPTY"

M == 3
N == 3

\* ------------------------------------------------------------------------
\* Bounds of the model
\* ------------------------------------------------------------------------
\* Largest number of rows and of columns a board is built with.
MaxDim == 3
\* A new game is started only while the memory holds at most this many records.
MaxMistakes == 3
\* The same cap for sessions in which the human may type anything.
MaxMistakesAnyInput == 0
\* Number of submissions outside legal_moves the human makes in a session.
MaxIllegalInputs == 1

VARIABLES
    shell,          \* which game loop runs: "cli" or "gui"
    pc,             \* "play", "retry" (blocked in retry()), "done", "crashed"
    game_board,     \* play(): game_board
    chance,         \* play(): chance, the side to move is chance[1]
    history,        \* play(): history, the Node chain, head first; <<>> is None
    mistakes,       \* Knowledge.mistakes
    made_a_move,    \* gui play(): made_a_move
    illegal_inputs  \* submissions outside legal_moves so far

vars == <<shell, pc, game_board, chance, history, mistakes, made_a_move, illegal_inputs>>

\* ------------------------------------------------------------------------
\* hexapawn.py
\* ------------------------------------------------------------------------
Cell(board, pos) == board[pos[1] + 1][pos[2] + 1]

\* A board whose white row is found with the number of columns.
initial_state_white_row_n(m, n) ==
    [i \in 1..m |-> [j \in 1..n |->
        IF i = n THEN WHITE ELSE IF i = 1 THEN BLACK ELSE EMPTY]]

\* initial_state(): with no row at all, board[0][j] raises as soon as there is
\* a column to fill; nothing else in the function can fail.
initial_state_fails(m, n) == m <= 0 /\ n >= 1

\* Row 0 is written first and row m - 1 second, so a single row ends up white.
initial_state(m, n) ==
    [i \in 1..m |-> [j \in 1..n |->
        IF i = m THEN WHITE ELSE IF i = 1 THEN BLACK ELSE EMPTY]]

next_player(turn) == IF turn = WHITE THEN BLACK ELSE WHITE

direction(turn) == IF turn = WHITE THEN -1 ELSE 1

\* A generator whose diagonal test accepts every cell not held by the mover.
pawn_moves_onto_empty(board, turn, i, j) ==
    LET m == Len(board)
        n == Len(board[1])
        d == IF turn = WHITE THEN -1 ELSE 1
        forward == <<i + d, j>>
        diag_left == <<i + d, j - 1>>
        diag_right == <<i + d, j + 1>>
    IN  (IF 0 <= forward[1] /\ forward[1] < m /\ Cell(board, forward) = EMPTY
            THEN <<forward>> ELSE <<>>)
        \o
        (IF /\ 0 <= diag_left[1] /\ diag_left[1] < m
            /\ 0 <= diag_left[2] /\ diag_left[2] < n
            /\ Cell(board, diag_left) # turn
            THEN <<diag_left>> ELSE <<>>)
        \o
        (IF /\ 0 <= diag_right[1] /\ diag_right[1] < m
            /\ 0 <= diag_right[2] /\ diag_right[2] < n
            /\ Cell(board, diag_right) # turn
            THEN <<diag_right>> ELSE <<>>)

\* A generator that tests the right diagonal before the left one.
pawn_moves_right_first(board, turn, i, j) ==
    LET m == Len(board)
        n == Len(board[1])
        d == IF turn = WHITE THEN -1 ELSE 1
        opponent == IF turn = WHITE THEN BLACK ELSE WHITE
        forward == <<i + d, j>>
        diag_left == <<i + d, j - 1>>
        diag_right == <<i + d, j + 1>>
    IN  (IF 0 <= forward[1] /\ forward[1] < m /\ Cell(board, forward) = EMPTY
            THEN <<forward>> ELSE <<>>)
        \o
        (IF /\ 0 <= diag_right[1] /\ diag_right[1] < m
            /\ 0 <= diag_right[2] /\ diag_right[2] < n
            /\ Cell(board, diag_right) = opponent
            THEN <<diag_right>> ELSE <<>>)
        \o
        (IF /\ 0 <= diag_left[1] /\ diag_left[1] < m
            /\ 0 <= diag_left[2] /\ diag_left[2] < n
            /\ Cell(board, diag_left) = opponent
            THEN <<diag_left>> ELSE <<>>)

\* The destinations appended for the pawn at <<i, j>>: forward, diag_left, diag_right.
pawn_moves(board, turn, i, j) ==
    LET m == Len(board)
        n == Len(board[1])
        d == direction(turn)
        opponent == next_player(turn)
        forward == <<i + d, j>>
        diag_left == <<i + d, j - 1>>
        diag_right == <<i + d, j + 1>>
    IN  (IF 0 <= forward[1] /\ forward[1] < m /\ Cell(board, forward) = EMPTY
            THEN <<forward>> ELSE <<>>)
        \o
        (IF /\ 0 <= diag_left[1] /\ diag_left[1] < m
            /\ 0 <= diag_left[2] /\ diag_left[2] < n
            /\ Cell(board, diag_left) = opponent
            THEN <<diag_left>> ELSE <<>>)
        \o
        (IF /\ 0 <= diag_right[1] /\ diag_right[1] < m
            /\ 0 <= diag_right[2] /\ diag_right[2] < n
            /\ Cell(board, diag_right) = opponent
            THEN <<diag_right>> ELSE <<>>)

\* The dict returned by actions(), as the sequence of its items <<pawn, moves>>
\* in insertion order; a key exists only once a destination was appended.
actions(board, turn) ==
    LET m == Len(board)
        n == Len(board[1])
        cells == [k \in 1..(m * n) |-> <<(k - 1) \div n, (k - 1) % n>>]
        items == [k \in 1..(m * n) |->
                    <<cells[k],
                      IF Cell(board, cells[k]) = turn
                        THEN pawn_moves(board, turn, cells[k][1], cells[k][2])
                        ELSE <<>> >>]
    IN  SelectSeq(items, LAMBDA item : item[2] # <<>>)

\* result(): the assertion on dest and the index error on depart abort the call.
result_fails(board, depart, dest) ==
    LET m == Len(board)
        n == Len(board[1])
    IN  \/ ~(0 <= dest[1] /\ dest[1] < m /\ 0 <= dest[2] /\ dest[2] < n)
        \/ ~(depart[1] < m /\ depart[2] < n)

\* A move that forgets to clear the cell it leaves.
result_keeps_depart(board, depart, dest) ==
    [i \in 1..Len(board) |-> [j \in 1..Len(board[1]) |->
        IF <<i - 1, j - 1>> = dest THEN Cell(board, depart) ELSE board[i][j]]]

result(board, depart, dest) ==
    [i \in 1..Len(board) |-> [j \in 1..Len(board[1]) |->
        IF <<i - 1, j - 1>> = dest THEN Cell(board, depart)
        ELSE IF <<i - 1, j - 1>> = depart THEN EMPTY
        ELSE board[i][j]]]

\* A result() that writes the move into the list it was given.
result_input_in_place(board, depart, dest) == result(board, depart, dest)

\* The list passed to result() as the call leaves it: the two writes go to the
\* deep copy, so every reference to the argument still sees the old cells.
result_input(board, depart, dest) == board

any_in_row(row, piece) == \E j \in 1..Len(row) : row[j] = piece

terminal(board, turn) ==
    LET white_reached_top == any_in_row(board[1], WHITE)
        black_reached_bottom == any_in_row(board[Len(board)], BLACK)
        white_trapped == turn = WHITE /\ actions(board, WHITE) = <<>>
        black_trapped == turn = BLACK /\ actions(board, BLACK) = <<>>
    IN  white_reached_top \/ black_reached_bottom \/ white_trapped \/ black_trapped

\* A utility() whose trapped tests look at the side that is not to move.
utility_wrong_side(board, turn) ==
    IF any_in_row(board[1], WHITE) THEN WHITE
    ELSE IF any_in_row(board[Len(board)], BLACK) THEN BLACK
    ELSE IF turn = WHITE /\ actions(board, BLACK) = <<>> THEN WHITE
    ELSE IF turn = BLACK /\ actions(board, WHITE) = <<>> THEN BLACK
    ELSE "FAIL"

\* utility(); "FAIL" stands for the failed assertion at the end of the function.
utility(board, turn) ==
    IF any_in_row(board[1], WHITE) THEN WHITE
    ELSE IF any_in_row(board[Len(board)], BLACK) THEN BLACK
    ELSE IF turn = BLACK /\ actions(board, BLACK) = <<>> THEN WHITE
    ELSE IF turn = WHITE /\ actions(board, WHITE) = <<>> THEN BLACK
    ELSE "FAIL"

\* ------------------------------------------------------------------------
\* bot.py
\* ------------------------------------------------------------------------
\* A node that is never linked to the one before it.
Node_without_parent(state, parent, action) == <<[state |-> state, action |-> action]>>

Node(state, parent, action) == <<[state |-> state, action |-> action]>> \o parent

Mistake(configuration, fault_action) ==
    [configuration |-> configuration, fault_action |-> fault_action]

notify(known, mistake) == Append(known, mistake)

is_mistake(known, configuration, action) ==
    \E k \in 1..Len(known) : known[k] = Mistake(configuration, action)

RECURSIVE sum_len(_)
sum_len(items) ==
    IF items = <<>> THEN 0 ELSE Len(Head(items)[2]) + sum_len(Tail(items))

\* A tally against the number of movable pawns instead of the number of moves.
catch22_counts_pawns(known, configuration) ==
    LET possible_moves == actions(configuration, BLACK)
        fault_tally == Len(SelectSeq(known, LAMBDA mistake : mistake.configuration = configuration))
    IN  Len(possible_moves) - 1 = fault_tally

catch22(known, configuration) ==
    LET possible_moves == actions(configuration, BLACK)
        total_moves == sum_len(possible_moves)
        fault_tally == Len(SelectSeq(known, LAMBDA mistake : mistake.configuration = configuration))
    IN  total_moves - 1 = fault_tally

\* ------------------------------------------------------------------------
\* cli.py / gui.py
\* ------------------------------------------------------------------------
\* An analysis that blames the last decision and never climbs.
review_reflect_head_only(known, node) ==
    IF node # <<>> THEN notify(known, Mistake(Head(node).state, Head(node).action)) ELSE known

\* An analysis that climbs but leaves out the record made after the loop.
RECURSIVE review_reflect_loop_only(_, _)
review_reflect_loop_only(known, node) ==
    IF node # <<>> /\ catch22(known, Head(node).state)
        THEN review_reflect_loop_only(
                notify(known, Mistake(Head(node).state, Head(node).action)), Tail(node))
    ELSE known

\* An analysis whose record after the loop is made from the node it started at.
review_reflect_head_again(known, node) ==
    IF node = <<>> THEN known
    ELSE notify(review_reflect_loop_only(known, node),
                Mistake(Head(node).state, Head(node).action))

\* An analysis that blames every decision of the lost game.
RECURSIVE review_reflect_blames_all(_, _)
review_reflect_blames_all(known, node) ==
    IF node = <<>> THEN known
    ELSE review_reflect_blames_all(
            notify(known, Mistake(Head(node).state, Head(node).action)), Tail(node))

RECURSIVE review_reflect(_, _)
review_reflect(known, node) ==
    IF node # <<>> /\ catch22(known, Head(node).state)
        THEN review_reflect(notify(known, Mistake(Head(node).state, Head(node).action)),
                            Tail(node))
    ELSE IF node # <<>>
        THEN notify(known, Mistake(Head(node).state, Head(node).action))
    ELSE known

\* The inner loop of black's turn: the first destination of this pawn that is
\* not a known mistake, <<>> when the loop ends without break.
RECURSIVE scan_moves(_, _, _, _)
scan_moves(known, board, pawn, moves) ==
    IF moves = <<>> THEN <<>>
    ELSE IF ~is_mistake(known, board, <<pawn, Head(moves)>>) THEN <<pawn, Head(moves)>>
    ELSE scan_moves(known, board, pawn, Tail(moves))

\* The outer loop of black's turn; <<>> is the for-else branch.
RECURSIVE scan_pawns(_, _, _)
scan_pawns(known, board, items) ==
    IF items = <<>> THEN <<>>
    ELSE LET found == scan_moves(known, board, Head(items)[1], Head(items)[2])
         IN  IF found # <<>> THEN found ELSE scan_pawns(known, board, Tail(items))

\* A selection that never consults the memory.
black_choice_ignores_memory(known, board) == scan_pawns(<<>>, board, actions(board, BLACK))

black_choice(known, board) == scan_pawns(known, board, actions(board, BLACK))

reverse(c) == <<c[2], c[1]>>

\* The legality test of the gui before result() is called.
gui_accepts(board, depart, dest) ==
    LET possible_moves == actions(board, WHITE)
    IN  \E k \in 1..Len(possible_moves) :
            /\ possible_moves[k][1] = depart
            /\ \E l \in 1..Len(possible_moves[k][2]) : possible_moves[k][2][l] = dest

Shells == {"cli", "gui"}

Init ==
    /\ shell \in Shells
    /\ pc = "play"
    /\ game_board = initial_state(M, N)
    /\ chance = <<WHITE, BLACK>>
    /\ history = <<>>
    /\ mistakes = <<>>
    /\ made_a_move = FALSE
    /\ illegal_inputs = 0

\* An end of game that reviews whoever won.
after_game_always(known, node, winner) == review_reflect(known, node)

\* review_reflect() is called only when white won.
after_game(known, node, winner) ==
    IF winner = WHITE THEN review_reflect(known, node) ELSE known

\* The loop iteration that finds the game finished, up to the retry() prompt.
GameOver ==
    /\ pc = "play"
    /\ terminal(game_board, chance[1])
    /\ mistakes' = after_game(mistakes, history, utility(game_board, chance[1]))
    /\ pc' = "retry"
    /\ UNCHANGED <<shell, game_board, chance, history, made_a_move, illegal_inputs>>

\* A retry that builds a new Knowledge as well.
fresh_game_forgets == [game_board |-> initial_state(M, N), chance |-> <<WHITE, BLACK>>,
                       history |-> <<>>, mistakes |-> <<>>]

\* The state play() sets up for the next game.
fresh_game == [game_board |-> initial_state(M, N), chance |-> <<WHITE, BLACK>>,
               history |-> <<>>, mistakes |-> mistakes]

\* The answer to retry() arrives.
Retry(again, cap) ==
    /\ pc = "retry"
    /\ again => Len(mistakes) <= cap
    /\ IF again
         THEN /\ game_board' = fresh_game.game_board
              /\ chance' = fresh_game.chance
              /\ history' = fresh_game.history
              /\ mistakes' = fresh_game.mistakes
              /\ pc' = "play"
         ELSE /\ pc' = "done"
              /\ UNCHANGED <<game_board, chance, history, mistakes>>
    /\ UNCHANGED <<shell, made_a_move, illegal_inputs>>

\* White's turn: the human submits depart and dest.
HumanMove(depart, dest) ==
    /\ pc = "play"
    /\ ~terminal(game_board, chance[1])
    /\ chance[1] = WHITE
    /\ illegal_inputs' = IF gui_accepts(game_board, depart, dest)
                           THEN illegal_inputs ELSE illegal_inputs + 1
    /\ illegal_inputs' <= MaxIllegalInputs
    /\ IF shell = "cli"
         THEN IF result_fails(game_board, depart, dest)
                THEN /\ pc' = "crashed"
                     /\ UNCHANGED <<game_board, chance, made_a_move>>
                ELSE /\ game_board' = result(game_board, depart, dest)
                     /\ chance' = reverse(chance)
                     /\ UNCHANGED <<pc, made_a_move>>
         ELSE IF gui_accepts(game_board, depart, dest)
                THEN /\ game_board' = result(game_board, depart, dest)
                     /\ made_a_move' = TRUE
                     /\ chance' = reverse(chance)
                     /\ UNCHANGED pc
                ELSE /\ made_a_move' = FALSE
                     /\ UNCHANGED <<pc, game_board, chance>>
    /\ UNCHANGED <<shell, history, mistakes>>

\* Black's turn.  The new node refers to the list that is then passed to
\* result(), so it holds whatever that call leaves in it.
BlackMove ==
    /\ pc = "play"
    /\ ~terminal(game_board, chance[1])
    /\ chance[1] = BLACK
    /\ LET choice == black_choice(mistakes, game_board)
       IN  IF choice # <<>>
             THEN /\ history' = Node(result_input(game_board, choice[1], choice[2]),
                                      history, choice)
                  /\ game_board' = result(game_board, choice[1], choice[2])
                  /\ chance' = reverse(chance)
                  /\ UNCHANGED pc
             ELSE IF shell = "cli"
                    THEN /\ pc' = "crashed"
                         /\ UNCHANGED <<history, game_board, chance>>
                    ELSE /\ chance' = reverse(chance)
                         /\ UNCHANGED <<pc, history, game_board>>
    /\ UNCHANGED <<shell, mistakes, made_a_move, illegal_inputs>>

\* What the human can point at: the cells of the board and one place off it.
Inputs == ((0..(M - 1)) \X (0..(N - 1))) \cup {<<M, N>>}

LegalInput ==
    LET possible_moves == actions(game_board, WHITE)
    IN  \E k \in 1..Len(possible_moves) : \E l \in 1..Len(possible_moves[k][2]) :
            HumanMove(possible_moves[k][1], possible_moves[k][2][l])

AnyInput == \E depart \in Inputs, dest \in Inputs : HumanMove(depart, dest)

RetryYes == Retry(TRUE, MaxMistakes)
RetryNo == Retry(FALSE, MaxMistakes)
RetryYesAnyInput == Retry(TRUE, MaxMistakesAnyInput)

\* Sessions in which the human submits only legal moves.
Next == LegalInput \/ BlackMove \/ GameOver \/ RetryYes \/ RetryNo

Spec == Init /\ [][Next]_vars

\* Sessions in which the human may submit any pair of positions.
NextAnyInput == AnyInput \/ BlackMove \/ GameOver \/ RetryYesAnyInput \/ RetryNo

SpecAnyInput == Init /\ [][NextAnyInput]_vars

\* Every board and both sides, for the rules engine taken alone.
AllBoards == [1..M -> [1..N -> {WHITE, BLACK, EMPTY}]]

InitRules ==
    /\ shell = "cli"
    /\ pc = "play"
    /\ game_board \in AllBoards
    /\ chance \in {<<WHITE, BLACK>>, <<BLACK, WHITE>>}
    /\ history = <<>>
    /\ mistakes = <<>>
    /\ made_a_move = FALSE
    /\ illegal_inputs = 0

\* A move generated by actions() is applied with result().
ApplyGenerated ==
    LET possible_moves == actions(game_board, chance[1])
    IN  \E k \in 1..Len(possible_moves) : \E l \in 1..Len(possible_moves[k][2]) :
            /\ game_board' = result(game_board, possible_moves[k][1], possible_moves[k][2][l])
            /\ chance' = reverse(chance)
            /\ UNCHANGED <<shell, pc, history, mistakes, made_a_move, illegal_inputs>>

NextRules == ApplyGenerated

SpecRules == InitRules /\ [][NextRules]_vars

\* The rules engine again, each call of result() leaving its input board and
\* its move behind as a single node.
ApplyRecorded ==
    LET possible_moves == actions(game_board, chance[1])
    IN  \E k \in 1..Len(possible_moves) : \E l \in 1..Len(possible_moves[k][2]) :
            /\ history' = Node(game_board, <<>>, <<possible_moves[k][1], possible_moves[k][2][l]>>)
            /\ game_board' = result(game_board, possible_moves[k][1], possible_moves[k][2][l])
            /\ chance' = reverse(chance)
            /\ UNCHANGED <<shell, pc, mistakes, made_a_move, illegal_inputs>>

NextApply == ApplyRecorded

SpecApply == InitRules /\ [][NextApply]_vars

\* Boards of other sizes: initial_state() is called with any dimensions and
\* generated moves are applied to the board it returns.
Dims == (-1)..MaxDim

InitBoards ==
    /\ shell = "cli"
    /\ pc = "new"
    /\ game_board = <<>>
    /\ chance = <<WHITE, BLACK>>
    /\ history = <<>>
    /\ mistakes = <<>>
    /\ made_a_move = FALSE
    /\ illegal_inputs = 0

Construct(m, n) ==
    /\ pc = "new"
    /\ IF initial_state_fails(m, n)
         THEN pc' = "crashed" /\ UNCHANGED game_board
         ELSE pc' = "play" /\ game_board' = initial_state(m, n)
    /\ UNCHANGED <<shell, chance, history, mistakes, made_a_move, illegal_inputs>>

AnyBoard == \E m \in Dims, n \in Dims : Construct(m, n)

PlayOn == pc = "play" /\ Len(game_board) > 0 /\ ApplyGenerated

NextBoards == AnyBoard \/ PlayOn

SpecBoards == InitBoards /\ [][NextBoards]_vars

\* ------------------------------------------------------------------------
\* Properties
\* ------------------------------------------------------------------------
Cells == (0..(M - 1)) \X (0..(N - 1))

\* The rule of the game: dest is one row forward of depart, and either straight
\* ahead onto an empty cell or diagonally onto a piece of the other side.
LegalMove(board, turn, depart, dest) ==
    /\ depart \in Cells
    /\ dest \in Cells
    /\ Cell(board, depart) = turn
    /\ dest[1] = depart[1] + (IF turn = WHITE THEN -1 ELSE 1)
    /\ \/ dest[2] = depart[2] /\ Cell(board, dest) = EMPTY
       \/ /\ dest[2] \in {depart[2] - 1, depart[2] + 1}
          /\ Cell(board, dest) = (IF turn = WHITE THEN BLACK ELSE WHITE)

LegalPairs(board, turn) ==
    {p \in Cells \X Cells : LegalMove(board, turn, p[1], p[2])}

\* Generation order: sources row by row, then straight, left, right.
Slot(p) == IF p[2][2] = p[1][2] THEN 0 ELSE IF p[2][2] = p[1][2] - 1 THEN 1 ELSE 2

Precedes(p, q) ==
    \/ p[1][1] < q[1][1]
    \/ p[1][1] = q[1][1] /\ p[1][2] < q[1][2]
    \/ p[1] = q[1] /\ Slot(p) < Slot(q)

Untried(known, board) ==
    {p \in LegalPairs(board, BLACK) : ~is_mistake(known, board, p)}

BlackToMove ==
    pc = "play" /\ chance[1] = BLACK /\ ~terminal(game_board, BLACK)

Exhausted ==
    BlackToMove /\ LegalPairs(game_board, BLACK) # {} /\ Untried(mistakes, game_board) = {}

\* C1: with legal white moves only, black is never to move at a non-terminal
\* board at which every legal black move is already a known mistake.
C1_NeverExhausted == ~Exhausted

\* C2: when black is to move and some legal move is not a known mistake, the
\* move played is the first such pair in generation order: it is pushed on the
\* history with the board before it, applied to the board, and white is to move.
C2_FirstUntriedPlayed ==
    [][(BlackToMove /\ Untried(mistakes, game_board) # {}) =>
        \E p \in Untried(mistakes, game_board) :
            /\ \A q \in Untried(mistakes, game_board) : q = p \/ Precedes(p, q)
            /\ game_board' = result(game_board, p[1], p[2])
            /\ history' = Node(game_board, history, p)
            /\ chance'[1] = WHITE]_vars

\* Black has just played a move that is not the first legal one, the pairs
\* generated before it being known mistakes.
C2_Witness ==
    /\ pc = "play"
    /\ chance[1] = WHITE
    /\ history # <<>>
    /\ game_board = result(Head(history).state, Head(history).action[1], Head(history).action[2])
    /\ \E q \in LegalPairs(Head(history).state, BLACK) :
            /\ Precedes(q, Head(history).action)
            /\ is_mistake(mistakes, Head(history).state, q)

\* C6: when black is to move and every legal move is a known mistake, the
\* loop does not go on: the board is not changed and the turn does not pass.
C6_ExhaustionSurfaced ==
    [][Exhausted => (game_board' = game_board /\ chance' = chance)]_vars

LostGame ==
    /\ pc = "play"
    /\ terminal(game_board, chance[1])
    /\ utility(game_board, chance[1]) = WHITE

\* The number of leading nodes of the history, head first, that the analysis
\* records: the forced nodes up to the first node that is not forced, and
\* that node.
Blamed(known, node) ==
    LET free == {k \in 1..Len(node) : ~catch22(known, node[k].state)}
    IN  IF free = {} THEN Len(node)
        ELSE CHOOSE k \in free : \A l \in free : k <= l

\* C3: the analysis of a lost game appends the (board, move) pairs of the
\* forced nodes from the head up to the first node that is not forced, then
\* the pair of that node, and nothing else; nothing for an empty history.
C3_AnalysisRecords ==
    [][LostGame =>
        mistakes' = mistakes \o
            [k \in 1..Blamed(mistakes, history) |->
                Mistake(history[k].state, history[k].action)]]_vars

\* A lost game of three black decisions has been analysed: the head was
\* forced, its parent was not, and the oldest decision was left unjudged.
C3_Witness ==
    /\ pc = "retry"
    /\ utility(game_board, chance[1]) = WHITE
    /\ Len(history) >= 3
    /\ Len(mistakes) >= 3
    /\ mistakes[Len(mistakes)] = Mistake(history[2].state, history[2].action)
    /\ mistakes[Len(mistakes) - 1] = Mistake(history[1].state, history[1].action)
    /\ ~is_mistake(mistakes, history[3].state, history[3].action)

Records(known) == {known[k] : k \in 1..Len(known)}

\* C4: after a lost game with at least one black decision, the pair of the
\* most recent decision is a known mistake, it was not one before the
\* analysis, and the set of distinct records is strictly larger.
C4_LossEnlargesKnowledge ==
    [][(LostGame /\ history # <<>>) =>
        /\ is_mistake(mistakes', Head(history).state, Head(history).action)
        /\ ~is_mistake(mistakes, Head(history).state, Head(history).action)
        /\ Records(mistakes) \subseteq Records(mistakes')
        /\ Cardinality(Records(mistakes')) > Cardinality(Records(mistakes))]_vars

\* A second or later loss has been analysed.
C4_Witness ==
    /\ pc = "retry"
    /\ utility(game_board, chance[1]) = WHITE
    /\ history # <<>>
    /\ Len(mistakes) >= 2
    /\ mistakes[Len(mistakes)].configuration # initial_state(M, N)
    /\ is_mistake(mistakes, Head(history).state, Head(history).action)

WhiteToMove ==
    pc = "play" /\ chance[1] = WHITE /\ ~terminal(game_board, WHITE)

\* C5: a submission that is not in legal_moves(board, WHITE) is rejected: the
\* board, the side to move, the history and the memory are unchanged.
C5_IllegalInputRejected ==
    [][\A depart \in Inputs, dest \in Inputs :
        (/\ WhiteToMove
         /\ <<depart, dest>> \notin LegalPairs(game_board, WHITE)
         /\ HumanMove(depart, dest))
        => UNCHANGED <<game_board, chance, history, mistakes>>]_vars

IsPrefix(s, t) == Len(s) <= Len(t) /\ SubSeq(t, 1, Len(s)) = s

\* C7: the memory starts empty and every step leaves the old sequence of
\* records as a prefix of the new one; a retry sets the initial board, white
\* to move and an empty history, and keeps the memory.
C7_MemoryAppendOnly ==
    /\ mistakes = <<>>
    /\ [][/\ IsPrefix(mistakes, mistakes')
          /\ (pc = "retry" /\ pc' = "play") =>
                /\ game_board' = initial_state(M, N)
                /\ chance' = <<WHITE, BLACK>>
                /\ history' = <<>>
                /\ mistakes' = mistakes]_vars

\* A game has been restarted with records in the memory.
C7_Witness ==
    /\ pc = "play"
    /\ game_board = initial_state(M, N)
    /\ chance[1] = WHITE
    /\ history = <<>>
    /\ Len(mistakes) >= 2

\* C8: the memory changes only in the step that finds a finished game whose
\* winner is white; a game won by black leaves it as it was.
C8_AnalysisOnlyAfterLoss ==
    [][mistakes' # mistakes => (LostGame /\ pc' = "retry")]_vars

\* A game that black won has ended, with decisions in the history and records
\* of earlier games in the memory.
C8_Witness ==
    /\ pc = "retry"
    /\ utility(game_board, chance[1]) = BLACK
    /\ history # <<>>
    /\ mistakes # <<>>

\* The boards the session has seen: the current one, those of the history and
\* those of the memory.
SeenBoards ==
    {game_board} \cup {history[k].state : k \in 1..Len(history)}
                 \cup {mistakes[k].configuration : k \in 1..Len(mistakes)}

\* C9: catch22 holds of a board iff the number of records for that board is
\* the number of legal black moves there minus one.
C9_ForcedLossCount ==
    \A b \in SeenBoards :
        catch22(mistakes, b) <=>
            Cardinality({k \in 1..Len(mistakes) : mistakes[k].configuration = b})
                = Cardinality(LegalPairs(b, BLACK)) - 1

\* A board with two legal black moves, one of them recorded, is forced, and a
\* board with several legal moves and no record is not.
C9_Witness ==
    /\ \E b \in SeenBoards :
            /\ Cardinality(LegalPairs(b, BLACK)) = 2
            /\ Cardinality({p \in LegalPairs(b, BLACK) : is_mistake(mistakes, b, p)}) = 1
            /\ catch22(mistakes, b)
    /\ \E b \in SeenBoards :
            /\ Cardinality(LegalPairs(b, BLACK)) > 1
            /\ \A k \in 1..Len(mistakes) : mistakes[k].configuration # b
            /\ ~catch22(mistakes, b)

Listed(items, depart, dest) ==
    \E k \in 1..Len(items) :
        items[k][1] = depart /\ \E l \in 1..Len(items[k][2]) : items[k][2][l] = dest

\* C10: for every board and side, actions() lists exactly the legal pairs: a
\* key is a cell holding a piece of the side with at least one legal
\* destination, no key has an empty list or occurs twice, every destination
\* is on the board, the straight advance is listed iff the cell ahead is on
\* the board and empty, a diagonal iff it is on the board and holds a piece
\* of the other side.
C10_LegalMovesExact ==
    \A turn \in {WHITE, BLACK} :
        LET items == actions(game_board, turn)
            d == IF turn = WHITE THEN -1 ELSE 1
            other == IF turn = WHITE THEN BLACK ELSE WHITE
        IN  /\ \A k \in 1..Len(items) :
                    /\ items[k][2] # <<>>
                    /\ \A l \in 1..Len(items[k][2]) : items[k][2][l] \in Cells
                    /\ \A l \in 1..Len(items) : items[l][1] = items[k][1] => l = k
            /\ \A c \in Cells :
                    (\E k \in 1..Len(items) : items[k][1] = c)
                        <=> (Cell(game_board, c) = turn
                             /\ \E e \in Cells : LegalMove(game_board, turn, c, e))
            /\ \A k \in 1..Len(items) : \A l \in 1..Len(items[k][2]) :
                    /\ items[k][2][l][1] = items[k][1][1] + d
                    /\ items[k][2][l][2] - items[k][1][2] \in {-1, 0, 1}
            /\ \A c \in Cells : Cell(game_board, c) = turn =>
                    /\ Listed(items, c, <<c[1] + d, c[2]>>)
                            <=> (<<c[1] + d, c[2]>> \in Cells
                                 /\ Cell(game_board, <<c[1] + d, c[2]>>) = EMPTY)
                    /\ \A e \in {<<c[1] + d, c[2] - 1>>, <<c[1] + d, c[2] + 1>>} :
                            Listed(items, c, e)
                                <=> (e \in Cells /\ Cell(game_board, e) = other)

\* Black is to move on a board where one black pawn can advance and capture
\* to both sides while another black pawn has no move at all.
C10_Witness ==
    /\ \E k \in 1..Len(actions(game_board, BLACK)) :
            Len(actions(game_board, BLACK)[k][2]) = 3
    /\ \E c \in Cells :
            /\ Cell(game_board, c) = BLACK
            /\ \A k \in 1..Len(actions(game_board, BLACK)) :
                    actions(game_board, BLACK)[k][1] # c
    /\ \E c \in Cells : Cell(game_board, c) = EMPTY /\ c[1] < M - 1
    /\ chance[1] = BLACK

Count(board, piece) == Cardinality({c \in Cells : Cell(board, c) = piece})

Pieces(board) == Count(board, WHITE) + Count(board, BLACK)

\* The call of result() recorded in the head node has just returned game_board.
Applied ==
    /\ history # <<>>
    /\ game_board = result(Head(history).state, Head(history).action[1], Head(history).action[2])

IsStraight(action) == action[2][2] = action[1][2]

\* C11 as stated: result() on a legal move, diagonal moves included, leaves the
\* number of pieces on the board as it was.
C11_PieceCountPreserved ==
    Applied => Pieces(game_board) = Pieces(Head(history).state)

\* C11 as amended: a straight advance leaves the number of pieces as it was; a
\* diagonal move takes exactly one piece of the other side off the board; the
\* mover's own count never changes.
C11_PieceCountAmended ==
    Applied =>
        LET before == Head(history).state
            mover == Cell(before, Head(history).action[1])
            other == IF mover = WHITE THEN BLACK ELSE WHITE
        IN  /\ mover \in {WHITE, BLACK}
            /\ Count(game_board, mover) = Count(before, mover)
            /\ Count(game_board, other) =
                    Count(before, other) - (IF IsStraight(Head(history).action) THEN 0 ELSE 1)

\* A diagonal move has been applied and one piece is gone.
C11_Witness ==
    /\ Applied
    /\ ~IsStraight(Head(history).action)
    /\ Pieces(game_board) = Pieces(Head(history).state) - 1

\* The cells in which two boards differ.
Changed(before, after) == {c \in Cells : Cell(before, c) # Cell(after, c)}

C13_TerminalIffWinner ==
    \A turn \in {WHITE, BLACK} :
        /\ terminal(game_board, turn) <=> utility(game_board, turn) \in {WHITE, BLACK}
        /\ terminal(game_board, turn) <=>
                \/ \E c \in Cells : c[1] = 0 /\ Cell(game_board, c) = WHITE
                \/ \E c \in Cells : c[1] = M - 1 /\ Cell(game_board, c) = BLACK
                \/ LegalPairs(game_board, turn) = {}

\* No piece stands on its far row, both sides have pieces, the side to move
\* is blocked and the other side is not: the board is terminal for one side
\* to move and not for the other.
C13_Witness ==
    /\ \A c \in Cells : c[1] = 0 => Cell(game_board, c) # WHITE
    /\ \A c \in Cells : c[1] = M - 1 => Cell(game_board, c) # BLACK
    /\ Count(game_board, WHITE) > 0
    /\ Count(game_board, BLACK) > 0
    /\ LegalPairs(game_board, chance[1]) = {}
    /\ LegalPairs(game_board, chance[2]) # {}
    /\ terminal(game_board, chance[1])
    /\ utility(game_board, chance[1]) = chance[2]
    /\ ~terminal(game_board, chance[2])
    /\ utility(game_board, chance[2]) = "FAIL"

\* C14: initial_state(m, n) fails and returns no board whenever m < 2 or n < 1.
C14_BadDimensionsFail ==
    [][\A m \in Dims, n \in Dims :
        (Construct(m, n) /\ (m < 2 \/ n < 1)) =>
            (pc' = "crashed" /\ game_board' = game_board)]_vars

\* C15: for m >= 2 and n >= 1, initial_state(m, n) is a board of m rows of n
\* cells with exactly n black pieces, all in row 0, exactly n white pieces,
\* all in row m - 1, and every other cell empty.
C15_InitialBoard ==
    [][\A m \in Dims, n \in Dims :
        (Construct(m, n) /\ m >= 2 /\ n >= 1) =>
            LET board == game_board'
                at(piece) == {c \in (1..m) \X (1..n) : board[c[1]][c[2]] = piece}
            IN  /\ pc' = "play"
                /\ Len(board) = m
                /\ \A i \in 1..m : Len(board[i]) = n
                /\ Cardinality(at(BLACK)) = n
                /\ \A c \in at(BLACK) : c[1] = 1
                /\ Cardinality(at(WHITE)) = n
                /\ \A c \in at(WHITE) : c[1] = m
                /\ Cardinality(at(EMPTY)) = m * n - 2 * n]_vars

\* A board of two rows and three columns has been built.
C15_Witness ==
    /\ pc = "play"
    /\ game_board = << <<BLACK, BLACK, BLACK>>, <<WHITE, WHITE, WHITE>> >>

\* The positions of the records of a board in the memory.
RecordsAt(known, board) == {k \in 1..Len(known) : known[k].configuration = board}

\* C16: when the analysis of a lost game finds catch22 true at a node, every
\* legal black move at the node's board other than the node's own move is a
\* known mistake: the records counted for the board are pairwise different
\* legal moves and the move taken is not among them.
C16_ForcedMeansAllOthersKnown ==
    [][LostGame =>
        \A k \in 1..Blamed(mistakes, history) :
            catch22(mistakes, history[k].state) =>
                LET board == history[k].state
                    taken == history[k].action
                IN  /\ \A p \in LegalPairs(board, BLACK) \ {taken} :
                            is_mistake(mistakes, board, p)
                    /\ taken \in LegalPairs(board, BLACK)
                    /\ ~is_mistake(mistakes, board, taken)
                    /\ \A i \in RecordsAt(mistakes, board) :
                            /\ mistakes[i].fault_action \in LegalPairs(board, BLACK)
                            /\ \A j \in RecordsAt(mistakes, board) :
                                    mistakes[j] = mistakes[i] => j = i]_vars

\* A lost game has been analysed whose last decision was at a board with
\* several legal moves, the others recorded in earlier games: the analysis
\* recorded the last move too and climbed to the decision before it.
C16_Witness ==
    /\ pc = "retry"
    /\ utility(game_board, chance[1]) = WHITE
    /\ Len(history) >= 2
    /\ Cardinality(LegalPairs(history[1].state, BLACK)) >= 2
    /\ \A p \in LegalPairs(history[1].state, BLACK) : is_mistake(mistakes, history[1].state, p)
    /\ mistakes[Len(mistakes)] = Mistake(history[2].state, history[2].action)
    /\ mistakes[Len(mistakes) - 1] = Mistake(history[1].state, history[1].action)

\* C17: the history is empty when a session and every game starts; a black
\* move puts one node in front of it, holding the board before the move and
\* the move, which is a legal black move at that board; no other step, a
\* white move included, changes it; every stored move is legal at its board.
C17_HistoryIsBlacksMoves ==
    /\ history = <<>>
    /\ [][/\ (BlackToMove /\ game_board' # game_board) =>
                \E p \in LegalPairs(game_board, BLACK) :
                    /\ game_board' = result(game_board, p[1], p[2])
                    /\ history' = <<[state |-> game_board, action |-> p]>> \o history
          /\ (pc = "retry" /\ pc' = "play") => history' = <<>>
          /\ (~(BlackToMove /\ game_board' # game_board) /\ ~(pc = "retry" /\ pc' = "play"))
                => history' = history]_vars
    /\ [](/\ \A k \in 1..Len(history) :
                history[k].action \in LegalPairs(history[k].state, BLACK)
          /\ (pc = "play" /\ game_board = initial_state(M, N)) => history = <<>>)

\* Black has moved twice in this game and white has moved since: the history
\* holds the two black moves, the later one first.
C17_Witness ==
    /\ pc = "play"
    /\ chance[1] = BLACK
    /\ Len(history) = 2
    /\ game_board # result(history[1].state, history[1].action[1], history[1].action[2])
    /\ Count(history[1].state, EMPTY) > Count(history[2].state, EMPTY)
    /\ mistakes # <<>>

RECURSIVE SeqOf(_)
SeqOf(S) == IF S = {} THEN <<>>
            ELSE LET x == CHOOSE y \in S : TRUE IN <<x>> \o SeqOf(S \ {x})

\* A memory holding, for this board, the legal black pairs that come before p
\* in generation order.
KnownBefore(board, p) ==
    SeqOf({Mistake(board, q) : q \in {r \in LegalPairs(board, BLACK) : Precedes(r, p)}})

\* C18: actions() lists the sources by increasing row, then increasing
\* column, and the destinations of a source as straight advance, diagonal to
\* column j - 1, diagonal to column j + 1; black's loop tries the pairs in
\* this order: with exactly the pairs before p recorded, it plays p.
C18_GenerationOrder ==
    /\ \A turn \in {WHITE, BLACK} :
            LET items == actions(game_board, turn)
            IN  /\ \A k \in 1..Len(items) : \A l \in 1..Len(items) :
                        k < l => \/ items[k][1][1] < items[l][1][1]
                                 \/ /\ items[k][1][1] = items[l][1][1]
                                    /\ items[k][1][2] < items[l][1][2]
                /\ \A k \in 1..Len(items) :
                        \A a \in 1..Len(items[k][2]) : \A b \in 1..Len(items[k][2]) :
                            a < b => Slot(<<items[k][1], items[k][2][a]>>)
                                        < Slot(<<items[k][1], items[k][2][b]>>)
    /\ \A p \in LegalPairs(game_board, BLACK) :
            black_choice(KnownBefore(game_board, p), game_board) = p

\* Black is to move, the last black pawn listed has its three destinations
\* and a black pawn in an earlier row can move as well; with every pair before
\* the left diagonal of the last pawn recorded, the loop plays that diagonal.
C18_Witness ==
    LET items == actions(game_board, BLACK)
        last == items[Len(items)]
        left == <<last[1], <<last[1][1] + 1, last[1][2] - 1>> >>
    IN  /\ chance[1] = BLACK
        /\ Len(items) >= 2
        /\ Len(last[2]) = 3
        /\ items[1][1][1] < last[1][1]
        /\ Len(KnownBefore(game_board, left)) >= 2
        /\ black_choice(KnownBefore(game_board, left), game_board) = left

\* C19: with legal white moves only, no two records of the memory are equal,
\* so for every board the number of its records is the number of distinct
\* flagged moves there, all of them legal black moves, and never exceeds the
\* number of legal black moves at that board.
C19_NoDuplicateRecords ==
    /\ \A i \in 1..Len(mistakes) : \A j \in 1..Len(mistakes) :
            mistakes[i] = mistakes[j] => i = j
    /\ \A b \in SeenBoards :
            /\ Cardinality(RecordsAt(mistakes, b))
                    = Cardinality({p \in LegalPairs(b, BLACK) : is_mistake(mistakes, b, p)})
            /\ Cardinality(RecordsAt(mistakes, b)) <= Cardinality(LegalPairs(b, BLACK))

\* Every legal black move at some board with several moves has been recorded,
\* each once, in different games.
C19_Witness ==
    /\ Len(mistakes) >= 3
    /\ \E b \in SeenBoards :
            /\ Cardinality(LegalPairs(b, BLACK)) >= 2
            /\ Cardinality(RecordsAt(mistakes, b)) = Cardinality(LegalPairs(b, BLACK))

\* White, playing after this board with this side to move, wins whatever
\* black does.
RECURSIVE WhiteForcesWin(_, _)
WhiteForcesWin(board, turn) ==
    IF terminal(board, turn) THEN utility(board, turn) = WHITE
    ELSE LET after == {result(board, p[1], p[2]) : p \in LegalPairs(board, turn)}
         IN  IF turn = WHITE
               THEN \E b \in after : WhiteForcesWin(b, BLACK)
               ELSE \A b \in after : WhiteForcesWin(b, WHITE)

\* The recorded move is a legal black move after which white forces a win.
Sound(mistake) ==
    /\ mistake.fault_action \in LegalPairs(mistake.configuration, BLACK)
    /\ WhiteForcesWin(result(mistake.configuration, mistake.fault_action[1],
                              mistake.fault_action[2]), WHITE)

\* C20: with legal white moves only, every record of the memory is a black
\* move after which white can force a win against every black continuation:
\* the memory starts empty, no step removes or alters a record, and every
\* record a step appends is such a move.
C20_LearningIsSound ==
    /\ mistakes = <<>>
    /\ [][/\ IsPrefix(mistakes, mistakes')
          /\ \A k \in (Len(mistakes) + 1)..Len(mistakes') : Sound(mistakes'[k])]_vars

\* A lost game has been analysed and the analysis climbed: the last record is
\* the decision before the last one, white's reply to it did not end the
\* game, and white forces a win after it.
C20_Witness ==
    /\ pc = "retry"
    /\ utility(game_board, chance[1]) = WHITE
    /\ Len(history) >= 2
    /\ mistakes # <<>>
    /\ mistakes[Len(mistakes)] = Mistake(history[2].state, history[2].action)
    /\ Sound(mistakes[Len(mistakes)])
    /\ ~terminal(history[1].state, BLACK)
    /\ Cardinality(LegalPairs(history[1].state, BLACK)) >= 2


\* How far the pawns of a board have advanced, a captured pawn counting as
\* more than any advance it can have made: every legal move raises it.
RECURSIVE Advance(_, _)
Advance(board, row) ==
    IF row >= M THEN 0
    ELSE (M - 1 - row) * Cardinality({c \in Cells : c[1] = row /\ Cell(board, c) = WHITE})
         + row * Cardinality({c \in Cells : c[1] = row /\ Cell(board, c) = BLACK})
         + Advance(board, row + 1)

Rank(board) == Advance(board, 0) + M * (2 * N - Pieces(board))

\* The moves made so far in the running game, as the history and the turn
\* tell them: black's moves are the nodes of the history and white moved
\* before each of them.
Moves == 2 * Len(history) + (IF chance[1] = BLACK THEN 1 ELSE 0)

\* A turn of the running game is taken.
TurnTaken == pc = "play" /\ pc' = "play" /\ chance' # chance

\* Every turn taken changes the board by a legal move of the side to move, to
\* a board that is further advanced: no board comes back within a game.
C21_EveryTurnAdvances ==
    [][TurnTaken =>
        /\ \E p \in LegalPairs(game_board, chance[1]) :
                game_board' = result(game_board, p[1], p[2])
        /\ Rank(game_board') > Rank(game_board)]_vars

\* The number of moves of a game is bounded by the advance of its board,
\* which is bounded by the size of the board.
C21_MovesBounded ==
    pc \in {"play", "retry"} =>
        Moves <= Rank(game_board) /\ Rank(game_board) <= 2 * N * M

\* A game stops only because its board is terminal for the side to move.
C21_EndsAtTerminal ==
    [][pc = "play" /\ pc' # "play" =>
        pc' = "retry" /\ terminal(game_board, chance[1])]_vars

\* The board of a running game changes only when it is not terminal.
C21_NoMoveAfterEnd ==
    [][pc = "play" /\ game_board' # game_board => ~terminal(game_board, chance[1])]_vars

\* A move that ends the game wins it for the side that made it, and when the
\* game is over the side to move is the loser.
C21_LastMoverWins ==
    /\ [][(TurnTaken /\ terminal(game_board', chance'[1])) =>
            /\ game_board' # game_board
            /\ chance'[1] = next_player(chance[1])
            /\ utility(game_board', chance'[1]) = chance[1]]_vars
    /\ [](pc = "retry" => utility(game_board, chance[1]) = next_player(chance[1]))

\* C21: every game terminates: with legal moves by both sides every turn moves
\* a pawn to a board not seen before in the game, the number of moves is
\* bounded, a game ends only at a terminal board, no move is applied to a
\* terminal board, and at the terminal board the side that made the last move
\* has won and the side to move has lost.
C21_GamesTerminate ==
    /\ C21_EveryTurnAdvances
    /\ []C21_MovesBounded
    /\ C21_EndsAtTerminal
    /\ C21_NoMoveAfterEnd
    /\ C21_LastMoverWins

====
